---- MODULE Spec2Model ----
(***************************************************************************)
(* Model of ravel's reflection registry (lib/core/reflect.js) and of the   *)
(* @before decorator (lib/core/decorators/before.js).                      *)
(*                                                                         *)
(* JavaScript values are modelled as follows.                              *)
(*   - objects (classes and their prototypes) by an identity string;       *)
(*   - the arguments of before() by records [type, v], so that typeof is   *)
(*     a field access;                                                     *)
(*   - the undefined value by the marker Undefined;                        *)
(*   - a plain object used as a map by a function over its own keys.       *)
(* lib/util/meta.js, lib/core/symbols.js and the Ravel constructor are not *)
(* part of the sources at hand; the metadata store and the initial         *)
(* registry container follow the written specification.                    *)
(***************************************************************************)
EXTENDS Integers, Sequences, FiniteSets, TLC

VARIABLES
    knownClasses,   \* this[symbols.knownClasses]: [props, order]
    otherApp,       \* this[symbols.knownClasses] of a second Ravel instance
    store,          \* the metadata store, keyed by object identity
    now,            \* the value Date.now() returns
    configurator,   \* the configurator before() returned last (a set of 0 or 1)
    last,           \* the most recent call and its outcome
    passed,         \* observation: path -> class of the latest registerClass,
                    \* and whether the path was passed more than once
    applied         \* observation: <<target, key>> -> list last written

vars == <<knownClasses, otherApp, store, now, configurator, last, passed, applied>>

----------------------------------------------------------------------------
(* Bounds and input domains *)

MaxTime == 1

Undefined == "<undefined>"
None == "<none>"

Classes == {"Foo", "Bar"}

Prototype(o) ==
    CASE o = "Foo" -> "Foo.prototype"
      [] o = "Bar" -> "Bar.prototype"
      [] OTHER -> Undefined

Prototypes == {Prototype(k) : k \in Classes}

TypeOf(o) == IF o \in Classes THEN "function" ELSE "object"

Str(s) == [type |-> "string", v |-> s]
Num(s) == [type |-> "number", v |-> s]

AuthLog == <<Str("auth"), Str("log")>>
Cache == <<Str("cache")>>
JustA == <<Str("a")>>

\* argument lists handed to before()
BadArgLists == {<<Num("42")>>, <<Str("a"), Num("42")>>, <<Num("42"), Str("a")>>}

\* paths, classes and decorator inputs of the registry specification
Paths == {"/foo.js", "1"}
ArgLists == {<<>>, JustA} \cup BadArgLists
ClassTargets == {"Foo"}
MethodTargets == {"Foo.prototype"}
Methods == {"get"}

\* inputs of the specification of key order: names and array indices
KeyPaths == {"/foo.js", "/bar.js", "9", "10"}
KeyClasses == {"Foo"}

\* inputs of the specification with two instances; registerClass takes
\* whatever it is given as the class
AppsPaths == {"/foo.js", "/bar.js"}
AppsClasses == {"Foo", Undefined}
AppsArgLists == {JustA}
AppsClassTargets == {"Foo"}
AppsMethodTargets == {"Foo.prototype"}
AppsMethods == {"get"}

\* paths, classes and decorator inputs of the metadata specification
MetaPaths == {"/foo.js"}
MetaArgLists == {<<>>, AuthLog, Cache, <<Num("42")>>}
MetaClassTargets == Classes
MetaMethodTargets == Prototypes
MetaMethods == {"get", "list"}

----------------------------------------------------------------------------
(* Plain objects used as maps *)

EmptyMap == [x \in {} |-> None]

Put(f, k, v) == [x \in (DOMAIN f) \cup {k} |-> IF x = k THEN v ELSE f[x]]

Return(v) == [kind |-> "return", value |-> v]
Throw(e, m) == [kind |-> "throw", error |-> e, message |-> m]

\* array indices are the canonical numeric strings; the value of those used
IndexKeys == {"1", "9", "10"}
IndexValue(k) == CASE k = "1" -> 1 [] k = "9" -> 9 [] k = "10" -> 10 [] OTHER -> 0

IsArrayIndex(k) == k \in IndexKeys

RECURSIVE SortedIndexKeys(_)
SortedIndexKeys(S) ==
    IF S = {} THEN <<>>
    ELSE LET m == CHOOSE x \in S : \A y \in S : IndexValue(x) <= IndexValue(y)
         IN <<m>> \o SortedIndexKeys(S \ {m})

\* obj[key] = value on an ordinary object without inherited properties
SetProp(obj, key, value) ==
    [props |-> Put(obj.props, key, value),
     order |-> IF key \in DOMAIN obj.props \/ IsArrayIndex(key)
               THEN obj.order
               ELSE Append(obj.order, key)]

\* Object.keys(obj): array indices ascending, then strings in creation order
ObjectKeys(obj) ==
    SortedIndexKeys({k \in DOMAIN obj.props : IsArrayIndex(k)}) \o obj.order

----------------------------------------------------------------------------
(* Metadata store (lib/util/meta.js) *)

EmptyMeta == [class |-> EmptyMap, method |-> EmptyMap]

getMeta(st, target) ==
    IF target \in DOMAIN st THEN st[target] ELSE EmptyMeta

Sub(f, k) == IF k \in DOMAIN f THEN f[k] ELSE EmptyMap

putClassMeta(st, target, category, key, value) ==
    LET meta == getMeta(st, target)
        cat == Sub(meta.class, category)
    IN Put(st, target,
           [meta EXCEPT !.class = Put(meta.class, category, Put(cat, key, value))])

putMethodMeta(st, target, method, category, key, value) ==
    LET meta == getMeta(st, target)
        m == Sub(meta.method, method)
        cat == Sub(m, category)
    IN Put(st, target,
           [meta EXCEPT !.method =
               Put(meta.method, method, Put(m, category, Put(cat, key, value)))])

\* the value stored at namespace/key of a scope, or the default
MetaValue(scope, category, key, default) ==
    IF category \in DOMAIN scope /\ key \in DOMAIN scope[category]
    THEN scope[category][key] ELSE default

\* the list the route binder consumes for a method: class level first
EffectiveMiddleware(meta, method) ==
    MetaValue(meta.class, "@before", "middleware", <<>>)
    \o MetaValue(Sub(meta.method, method), "@before", "middleware", <<>>)

----------------------------------------------------------------------------
(* Meta, the class registration record *)

Meta(path, klass, t) == [path |-> path, class |-> klass, registeredAt |-> t]

registeredAt(record) == record.registeredAt

\* variant: the metadata of the class object is read, not of its prototype
metadata_ofClassObject(record, st) == getMeta(st, record.class)

metadata(record, st) == getMeta(st, Prototype(record.class))

\* variant: a class without stored metadata makes the getter fail
metadataGetter_strict(record, st) ==
    IF record.class = Undefined
    THEN Throw("TypeError", "Cannot read property 'prototype' of undefined")
    ELSE IF Prototype(record.class) \notin DOMAIN st
    THEN Throw("NotFound", record.path)
    ELSE Return(metadata(record, st))

\* the getter as a call: reading .prototype of undefined throws
metadataGetter(record, st) ==
    IF record.class = Undefined
    THEN Throw("TypeError", "Cannot read property 'prototype' of undefined")
    ELSE Return(metadata(record, st))

----------------------------------------------------------------------------
(* The registry operations *)

\* variant: an existing record is kept instead of being replaced
registerClassFunc_keepFirst(kc, path, klass, t) ==
    IF path \in DOMAIN kc.props THEN kc ELSE SetProp(kc, path, Meta(path, klass, t))

\* variant: a registered path is deleted and inserted again
registerClassFunc_reinsert(kc, path, klass, t) ==
    [props |-> Put(kc.props, path, Meta(path, klass, t)),
     order |-> IF IsArrayIndex(path)
               THEN kc.order
               ELSE Append(SelectSeq(kc.order, LAMBDA k : k # path), path)]

\* variant: the table is rebuilt and every record gets the new timestamp
registerClassFunc_restampAll(kc, path, klass, t) ==
    LET base == SetProp(kc, path, Meta(path, klass, t))
    IN [base EXCEPT !.props =
            [q \in DOMAIN base.props |-> Meta(q, base.props[q].class, t)]]

registerClassFunc(kc, path, klass, t) == SetProp(kc, path, Meta(path, klass, t))

\* variant: an unknown path yields an empty record instead of a failure
reflect_sentinel(kc, filePath) ==
    IF filePath \notin DOMAIN kc.props
    THEN Return(Meta(filePath, Undefined, 0))
    ELSE Return(kc.props[filePath])

reflect(kc, filePath) ==
    IF filePath \notin DOMAIN kc.props
    THEN Throw("NotFound", filePath)
    ELSE Return(kc.props[filePath])

\* variant: only the keys that are not array indices are listed
knownClassesFunc_namesOnly(kc) == kc.order

knownClassesFunc(kc) == ObjectKeys(kc)

----------------------------------------------------------------------------
(* The @before decorator *)

\* variant: only the first argument is validated
before_firstOnly(rest) ==
    IF Len(rest) > 0 /\ rest[1].type # "string"
    THEN Throw("IllegalValue", "Values supplied to @before decorator must be strings.")
    ELSE Return([rest |-> rest])

before(rest) ==
    IF \E i \in 1..Len(rest) : rest[i].type # "string"
    THEN Throw("IllegalValue", "Values supplied to @before decorator must be strings.")
    ELSE Return([rest |-> rest])

\* variant: the empty argument list is written like any other
Configure_noEmptyCheck(rest, st, target, key) ==
    IF key = Undefined
    THEN [outcome |-> Return(Undefined),
          store |-> putClassMeta(st, Prototype(target), "@before", "middleware", rest)]
    ELSE [outcome |-> Return(Undefined),
          store |-> putMethodMeta(st, target, key, "@before", "middleware", rest)]

\* variant: the method name is ignored and the list lands at class level
Configure_classOnly(rest, st, target, key) ==
    IF Len(rest) = 0
    THEN [outcome |-> Throw("NotFound", [method |-> key, resource |-> TypeOf(target)]),
          store |-> st]
    ELSE [outcome |-> Return(Undefined),
          store |-> putClassMeta(st, IF key = Undefined THEN Prototype(target) ELSE target,
                                 "@before", "middleware", rest)]

\* variant: the namespace is written without its leading "@"
Configure_bareNamespace(rest, st, target, key) ==
    IF Len(rest) = 0
    THEN [outcome |-> Throw("NotFound", [method |-> key, resource |-> TypeOf(target)]),
          store |-> st]
    ELSE IF key = Undefined
    THEN [outcome |-> Return(Undefined),
          store |-> putClassMeta(st, Prototype(target), "before", "middleware", rest)]
    ELSE [outcome |-> Return(Undefined),
          store |-> putMethodMeta(st, target, key, "before", "middleware", rest)]

\* variant: class-level lists are kept on one holder shared by all classes
Configure_sharedHolder(rest, st, target, key) ==
    IF Len(rest) = 0
    THEN [outcome |-> Throw("NotFound", [method |-> key, resource |-> TypeOf(target)]),
          store |-> st]
    ELSE IF key = Undefined
    THEN [outcome |-> Return(Undefined),
          store |-> putClassMeta(
                        putClassMeta(st, "Foo.prototype", "@before", "middleware", rest),
                        "Bar.prototype", "@before", "middleware", rest)]
    ELSE [outcome |-> Return(Undefined),
          store |-> putMethodMeta(st, target, key, "@before", "middleware", rest)]

\* variant: the list is appended to the one already stored
Configure_append(rest, st, target, key) ==
    IF Len(rest) = 0
    THEN [outcome |-> Throw("NotFound", [method |-> key, resource |-> TypeOf(target)]),
          store |-> st]
    ELSE IF key = Undefined
    THEN [outcome |-> Return(Undefined),
          store |-> putClassMeta(st, Prototype(target), "@before", "middleware",
                        MetaValue(getMeta(st, Prototype(target)).class,
                                  "@before", "middleware", <<>>) \o rest)]
    ELSE [outcome |-> Return(Undefined),
          store |-> putMethodMeta(st, target, key, "@before", "middleware",
                        MetaValue(Sub(getMeta(st, target).method, key),
                                  "@before", "middleware", <<>>) \o rest)]

\* the function before() returns, applied to (target, key)
Configure(rest, st, target, key) ==
    IF Len(rest) = 0
    THEN [outcome |-> Throw("NotFound", [method |-> key, resource |-> TypeOf(target)]),
          store |-> st]
    ELSE IF key = Undefined
    THEN [outcome |-> Return(Undefined),
          store |-> putClassMeta(st, Prototype(target), "@before", "middleware", rest)]
    ELSE [outcome |-> Return(Undefined),
          store |-> putMethodMeta(st, target, key, "@before", "middleware", rest)]

----------------------------------------------------------------------------
(* State machine *)

Init ==
    /\ knownClasses = [props |-> EmptyMap, order |-> <<>>]
    /\ otherApp = [props |-> EmptyMap, order |-> <<>>]
    /\ store = EmptyMap
    /\ now = 0
    /\ configurator = {}
    /\ last = [op |-> "new"]
    /\ passed = EmptyMap
    /\ applied = EmptyMap

\* Date.now() reads the wall clock: between two calls the reading may have
\* advanced or, after a clock correction, gone back
Tick ==
    /\ \E t \in 0..MaxTime :
         /\ t # now
         /\ now' = t
    /\ UNCHANGED <<knownClasses, otherApp, store, configurator, last, passed, applied>>

\* variant: the table lives on the prototype, shared by all instances
RegisterClass_sharedTable(path, klass) ==
    /\ knownClasses' = registerClassFunc(knownClasses, path, klass, now)
    /\ otherApp' = registerClassFunc(otherApp, path, klass, now)
    /\ last' = [op |-> "registerClass", path |-> path,
                previous |-> IF path \in DOMAIN knownClasses.props
                             THEN registeredAt(knownClasses.props[path]) ELSE -1,
                outcome |-> Return(Undefined)]
    /\ passed' = Put(passed, path, [class |-> klass, again |-> path \in DOMAIN passed])
    /\ UNCHANGED <<store, now, configurator, applied>>

RegisterClass(path, klass) ==
    /\ knownClasses' = registerClassFunc(knownClasses, path, klass, now)
    /\ last' = [op |-> "registerClass", path |-> path,
                previous |-> IF path \in DOMAIN knownClasses.props
                             THEN registeredAt(knownClasses.props[path]) ELSE -1,
                outcome |-> Return(Undefined)]
    /\ passed' = Put(passed, path, [class |-> klass, again |-> path \in DOMAIN passed])
    /\ UNCHANGED <<otherApp, store, now, configurator, applied>>

Reflect(filePath) ==
    /\ last' = [op |-> "reflect", path |-> filePath,
                outcome |-> reflect(knownClasses, filePath)]
    /\ UNCHANGED <<knownClasses, otherApp, store, now, configurator, passed, applied>>

KnownClasses ==
    /\ last' = [op |-> "knownClasses", outcome |-> Return(knownClassesFunc(knownClasses))]
    /\ UNCHANGED <<knownClasses, otherApp, store, now, configurator, passed, applied>>

\* reflect(filePath).metadata on the first instance
ReadMetadata(filePath) ==
    /\ filePath \in DOMAIN knownClasses.props
    /\ last' = [op |-> "metadata", path |-> filePath,
                outcome |-> metadataGetter(reflect(knownClasses, filePath).value, store)]
    /\ UNCHANGED <<knownClasses, otherApp, store, now, configurator, passed, applied>>

\* the same operations called on the second instance
RegisterClassOther(path, klass) ==
    /\ otherApp' = registerClassFunc(otherApp, path, klass, now)
    /\ last' = [op |-> "other.registerClass", path |-> path,
                previous |-> IF path \in DOMAIN otherApp.props
                             THEN registeredAt(otherApp.props[path]) ELSE -1,
                outcome |-> Return(Undefined)]
    /\ UNCHANGED <<knownClasses, store, now, configurator, passed, applied>>

ReflectOther(filePath) ==
    /\ last' = [op |-> "other.reflect", path |-> filePath,
                outcome |-> reflect(otherApp, filePath)]
    /\ UNCHANGED <<knownClasses, otherApp, store, now, configurator, passed, applied>>

KnownClassesOther ==
    /\ last' = [op |-> "other.knownClasses",
                outcome |-> Return(knownClassesFunc(otherApp))]
    /\ UNCHANGED <<knownClasses, otherApp, store, now, configurator, passed, applied>>

ReadMetadataOther(filePath) ==
    /\ filePath \in DOMAIN otherApp.props
    /\ last' = [op |-> "other.metadata", path |-> filePath,
                outcome |-> metadataGetter(reflect(otherApp, filePath).value, store)]
    /\ UNCHANGED <<knownClasses, otherApp, store, now, configurator, passed, applied>>

CallBefore(rest) ==
    LET r == before(rest)
    IN /\ last' = [op |-> "before", rest |-> rest, outcome |-> r]
       /\ configurator' = IF r.kind = "return" THEN {r.value} ELSE configurator
       /\ UNCHANGED <<knownClasses, otherApp, store, now, passed, applied>>

\* the list under "@before"/"middleware" that (target, key) addresses
SlotValue(st, target, key) ==
    IF key = Undefined
    THEN MetaValue(getMeta(st, Prototype(target)).class, "@before", "middleware", <<>>)
    ELSE MetaValue(Sub(getMeta(st, target).method, key), "@before", "middleware", <<>>)

Apply(target, key) ==
    /\ \E c \in configurator :
         LET r == Configure(c.rest, store, target, key)
         IN /\ store' = r.store
            /\ last' = [op |-> "apply", rest |-> c.rest, target |-> target,
                        key |-> key, previous |-> SlotValue(store, target, key),
                        outcome |-> r.outcome]
            /\ applied' = IF r.outcome.kind = "return"
                          THEN Put(applied, <<target, key>>, c.rest)
                          ELSE applied
    /\ UNCHANGED <<knownClasses, otherApp, now, configurator, passed>>

ApplyToClass(targets) == \E target \in targets : Apply(target, Undefined)

ApplyToMethod(targets, methods) ==
    \E target \in targets, key \in methods : Apply(target, key)

Next ==
    \/ Tick
    \/ \E path \in Paths, klass \in Classes : RegisterClass(path, klass)
    \/ \E filePath \in Paths : Reflect(filePath)
    \/ KnownClasses
    \/ \E rest \in ArgLists : CallBefore(rest)
    \/ ApplyToClass(ClassTargets)
    \/ ApplyToMethod(MethodTargets, Methods)

Spec == Init /\ [][Next]_vars

\* decorators and metadata; the calls fall within one clock reading
NextMeta ==
    \/ \E path \in MetaPaths, klass \in Classes : RegisterClass(path, klass)
    \/ \E filePath \in MetaPaths : Reflect(filePath)
    \/ KnownClasses
    \/ \E rest \in MetaArgLists : CallBefore(rest)
    \/ ApplyToClass(MetaClassTargets)
    \/ ApplyToMethod(MetaMethodTargets, MetaMethods)

SpecMeta == Init /\ [][NextMeta]_vars

\* key order
NextKeys ==
    \/ Tick
    \/ \E path \in KeyPaths, klass \in KeyClasses : RegisterClass(path, klass)
    \/ \E filePath \in KeyPaths : Reflect(filePath)
    \/ KnownClasses

SpecKeys == Init /\ [][NextKeys]_vars

\* two instances in one process; the calls fall within one clock reading
NextApps ==
    \/ \E path \in AppsPaths, klass \in AppsClasses : RegisterClass(path, klass)
    \/ \E path \in AppsPaths, klass \in AppsClasses : RegisterClassOther(path, klass)
    \/ \E filePath \in AppsPaths : Reflect(filePath)
    \/ \E filePath \in AppsPaths : ReflectOther(filePath)
    \/ \E filePath \in AppsPaths : ReadMetadata(filePath)
    \/ \E filePath \in AppsPaths : ReadMetadataOther(filePath)
    \/ KnownClasses
    \/ KnownClassesOther
    \/ \E rest \in AppsArgLists : CallBefore(rest)
    \/ ApplyToClass(AppsClassTargets)
    \/ ApplyToMethod(AppsMethodTargets, AppsMethods)

SpecApps == Init /\ [][NextApps]_vars

----------------------------------------------------------------------------
(* Properties of the registry *)

IsNotFound(outcome) == outcome.kind = "throw" /\ outcome.error = "NotFound"

IsIllegalValue(outcome) == outcome.kind = "throw" /\ outcome.error = "IllegalValue"

Range(seq) == {seq[i] : i \in 1..Len(seq)}

\* C1: reflect(path) of a path that was never passed to registerClass fails
\* with NotFound, whatever else is registered; it returns nothing. This is
\* so for the call most recently made and for every call that could be made.
C1_UnknownPathNotFound ==
    /\ \A p \in Paths \ DOMAIN passed :
         /\ IsNotFound(reflect(knownClasses, p))
         /\ reflect(knownClasses, p).message = p
    /\ (last.op = "reflect" /\ last.path \notin DOMAIN passed)
         => IsNotFound(last.outcome)

C1_Witness ==
    /\ last.op = "reflect"
    /\ last.path \notin DOMAIN passed
    /\ DOMAIN passed # {}
    /\ IsNotFound(last.outcome)

\* C2: reflect(path) of a registered path returns the record of the most
\* recent registerClass(path, K): its path is path and its class is K.
C2_LatestRegistrationWins ==
    /\ \A p \in DOMAIN passed :
         LET r == reflect(knownClasses, p)
         IN /\ r.kind = "return"
            /\ r.value.path = p
            /\ r.value.class = passed[p].class
            /\ r.value = Meta(p, passed[p].class, registeredAt(r.value))
    /\ (last.op = "reflect" /\ last.path \in DOMAIN passed)
         => /\ last.outcome.kind = "return"
            /\ last.outcome.value.path = last.path
            /\ last.outcome.value.class = passed[last.path].class

C2_Witness ==
    /\ last.op = "reflect"
    /\ last.path \in DOMAIN passed
    /\ passed[last.path].again
    /\ last.outcome.kind = "return"
    /\ last.outcome.value.class = "Bar"
    /\ \E q \in DOMAIN passed : q # last.path /\ passed[q].class = "Foo"

\* C3: across any step, and so across a second registerClass of the same
\* path, reflect(path).registeredAt of a registered path does not decrease.
\* The record is stamped with the wall-clock reading of its construction, so
\* a registration made after the clock was set back lowers the value.
C3_RegisteredAtNeverDecreases ==
    [][\A p \in DOMAIN knownClasses.props :
          LET r1 == reflect(knownClasses, p)
              r2 == reflect(knownClasses', p)
          IN /\ r1.kind = "return"
             /\ r2.kind = "return"
             /\ registeredAt(r2.value) >= registeredAt(r1.value)]_vars

\* C4: knownClasses() lists exactly the paths that were passed to
\* registerClass, each of them once, also after repeated registrations.
C4_KnownClassesExact ==
    /\ Range(knownClassesFunc(knownClasses)) = DOMAIN passed
    /\ Len(knownClassesFunc(knownClasses)) = Cardinality(DOMAIN passed)
    /\ last.op = "knownClasses"
         => /\ Range(last.outcome.value) = DOMAIN passed
            /\ Len(last.outcome.value) = Cardinality(DOMAIN passed)

C4_Witness ==
    /\ last.op = "knownClasses"
    /\ DOMAIN passed = Paths
    /\ \E p \in Paths : passed[p].again
    /\ Range(last.outcome.value) = Paths

----------------------------------------------------------------------------
(* Properties of the @before decorator and of the metadata it writes *)

AllStrings(rest) == \A i \in 1..Len(rest) : rest[i].type = "string"

\* g is the map f with key k set to v and nothing else changed
MapSetOnly(f, g, k, v) ==
    /\ DOMAIN g = (DOMAIN f) \cup {k}
    /\ g[k] = v
    /\ \A x \in (DOMAIN f) \ {k} : g[x] = f[x]

\* scope2 is scope with one value set, at category/key
ScopeSetOnly(scope, scope2, category, key, value) ==
    /\ DOMAIN scope2 = (DOMAIN scope) \cup {category}
    /\ \A c \in (DOMAIN scope) \ {category} : scope2[c] = scope[c]
    /\ MapSetOnly(Sub(scope, category), scope2[category], key, value)

\* st2 is st after one class-level write for object o
OneClassWrite(st, st2, o, category, key, value) ==
    /\ DOMAIN st2 = (DOMAIN st) \cup {o}
    /\ \A x \in (DOMAIN st) \ {o} : st2[x] = st[x]
    /\ st2[o].method = getMeta(st, o).method
    /\ ScopeSetOnly(getMeta(st, o).class, st2[o].class, category, key, value)

\* st2 is st after one method-level write for method m of object o
OneMethodWrite(st, st2, o, m, category, key, value) ==
    /\ DOMAIN st2 = (DOMAIN st) \cup {o}
    /\ \A x \in (DOMAIN st) \ {o} : st2[x] = st[x]
    /\ st2[o].class = getMeta(st, o).class
    /\ DOMAIN st2[o].method = (DOMAIN getMeta(st, o).method) \cup {m}
    /\ \A x \in (DOMAIN getMeta(st, o).method) \ {m} :
         st2[o].method[x] = getMeta(st, o).method[x]
    /\ ScopeSetOnly(Sub(getMeta(st, o).method, m), st2[o].method[m],
                    category, key, value)

\* C5: before(...) with a non-string argument at any position fails with
\* IllegalValue at the call: no configurator comes into being for that
\* list and the metadata store is left as it was.
C5_NonStringRejectedAtCall ==
    [][/\ (last' # last /\ last'.op = "before" /\ ~AllStrings(last'.rest))
            => /\ IsIllegalValue(last'.outcome)
               /\ store' = store
               /\ configurator' = configurator
               /\ applied' = applied
       /\ \A c \in configurator' : AllStrings(c.rest)]_vars

C5_Witness ==
    /\ last.op = "before"
    /\ last.rest = <<Str("a"), Num("42")>>
    /\ IsIllegalValue(last.outcome)
    /\ configurator = {[rest |-> JustA]}

\* C6: before() with no argument returns a configurator; applying it, to
\* a class or to a method m, fails with NotFound naming m and writes
\* nothing.
C6_EmptyBeforeFailsOnApply ==
    [][/\ (last' # last /\ last'.op = "before" /\ last'.rest = <<>>)
            => /\ last'.outcome = Return([rest |-> <<>>])
               /\ configurator' = {[rest |-> <<>>]}
       /\ (last' # last /\ last'.op = "apply" /\ last'.rest = <<>>)
            => /\ IsNotFound(last'.outcome)
               /\ last'.outcome.message.method = last'.key
               /\ store' = store
               /\ applied' = applied]_vars

C6_Witness ==
    /\ last.op = "apply"
    /\ last.rest = <<>>
    /\ last.key = "get"
    /\ IsNotFound(last.outcome)
    /\ last.outcome.message.method = "get"

\* C7: applying a configurator of before(n1..nk), k >= 1, makes exactly one
\* write of <<n1..nk>> under "@before"/"middleware": at class level of the
\* target class when no method is named, at method level of the named
\* method otherwise.
C7_ApplyWritesOnce ==
    [][(last' # last /\ last'.op = "apply" /\ Len(last'.rest) >= 1)
         => /\ last'.outcome = Return(Undefined)
            /\ IF last'.key = Undefined
               THEN OneClassWrite(store, store', Prototype(last'.target),
                                  "@before", "middleware", last'.rest)
               ELSE OneMethodWrite(store, store', last'.target, last'.key,
                                   "@before", "middleware", last'.rest)]_vars

C7_Witness ==
    /\ last.op = "apply"
    /\ last.rest = AuthLog
    /\ last.target = "Bar.prototype"
    /\ last.key = "list"
    /\ store["Bar.prototype"].method["list"]["@before"]["middleware"] = AuthLog
    /\ "get" \in DOMAIN store["Bar.prototype"].method
    /\ "Foo.prototype" \in DOMAIN store

\* Foo is registered at "/foo.js", before('auth','log') was applied to Foo
\* and before('cache') to its method "get"
FooScenario ==
    /\ "/foo.js" \in DOMAIN passed
    /\ passed["/foo.js"].class = "Foo"
    /\ <<"Foo", Undefined>> \in DOMAIN applied
    /\ applied[<<"Foo", Undefined>>] = AuthLog
    /\ <<"Foo.prototype", "get">> \in DOMAIN applied
    /\ applied[<<"Foo.prototype", "get">>] = Cache

ClassScopeOf(path) == metadata(reflect(knownClasses, path).value, store).class

\* C8 as stated: in the Foo scenario the class scope of
\* reflect('/foo.js').metadata is {"before": {"middleware": ["auth","log"]}}.
C8_Original ==
    FooScenario =>
        ClassScopeOf("/foo.js") = ("before" :> ("middleware" :> AuthLog))

\* C8 amended: in the Foo scenario the class scope of
\* reflect('/foo.js').metadata is {"@before": {"middleware": ["auth","log"]}};
\* the namespace is "@before".
C8_ClassScopeUnderAtBefore ==
    FooScenario =>
        /\ reflect(knownClasses, "/foo.js").kind = "return"
        /\ ClassScopeOf("/foo.js") = ("@before" :> ("middleware" :> AuthLog))

C8_Witness ==
    /\ FooScenario
    /\ last.op = "reflect"
    /\ last.path = "/foo.js"
    /\ last.outcome.kind = "return"
    /\ metadata(last.outcome.value, store).class["@before"]["middleware"] = AuthLog

\* C9: with list L1 applied at class level of a class and list L2 applied
\* to its method m, the list consumed for m is L1 followed by L2, and a
\* method n of the class with no list of its own gets L1 only.
C9_ClassLevelFirst ==
    \A k \in Classes : \A m, n \in MetaMethods :
        (/\ m # n
         /\ <<k, Undefined>> \in DOMAIN applied
         /\ <<Prototype(k), m>> \in DOMAIN applied
         /\ <<Prototype(k), n>> \notin DOMAIN applied)
        => LET meta == getMeta(store, Prototype(k))
           IN /\ EffectiveMiddleware(meta, m)
                   = applied[<<k, Undefined>>] \o applied[<<Prototype(k), m>>]
              /\ EffectiveMiddleware(meta, n) = applied[<<k, Undefined>>]

C9_Witness ==
    /\ <<"Foo", Undefined>> \in DOMAIN applied
    /\ applied[<<"Foo", Undefined>>] = Cache
    /\ <<"Foo.prototype", "get">> \in DOMAIN applied
    /\ applied[<<"Foo.prototype", "get">>] = AuthLog
    /\ <<"Foo.prototype", "list">> \notin DOMAIN applied
    /\ EffectiveMiddleware(getMeta(store, "Foo.prototype"), "get")
          = <<Str("cache"), Str("auth"), Str("log")>>
    /\ EffectiveMiddleware(getMeta(store, "Foo.prototype"), "list") = Cache

\* what was applied to a target, or nothing
AppliedTo(target, key) ==
    IF <<target, key>> \in DOMAIN applied THEN applied[<<target, key>>] ELSE <<>>

\* the metadata view of class k holds what was applied to k and nothing else
ViewIsOwn(view, k) ==
    /\ MetaValue(view.class, "@before", "middleware", <<>>) = AppliedTo(k, Undefined)
    /\ DOMAIN view.class \subseteq {"@before"}
    /\ \A m \in MetaMethods :
         MetaValue(Sub(view.method, m), "@before", "middleware", <<>>)
             = AppliedTo(Prototype(k), m)
    /\ DOMAIN view.method \subseteq MetaMethods
    /\ (\A key \in MetaMethods \cup {Undefined} :
            /\ <<k, key>> \notin DOMAIN applied
            /\ <<Prototype(k), key>> \notin DOMAIN applied)
         => view = EmptyMeta

\* C10: the metadata view of a class, also the one reached through
\* reflect(path).metadata, shows what was written for that class only;
\* nothing written for another class is visible in it.
C10_MetadataIsolation ==
    /\ \A k \in Classes : ViewIsOwn(getMeta(store, Prototype(k)), k)
    /\ \A p \in DOMAIN knownClasses.props :
         LET r == reflect(knownClasses, p)
         IN ViewIsOwn(metadata(r.value, store), r.value.class)

C10_Witness ==
    /\ last.op = "reflect"
    /\ last.outcome.kind = "return"
    /\ last.outcome.value.class = "Bar"
    /\ <<"Foo", Undefined>> \in DOMAIN applied
    /\ <<"Foo.prototype", "get">> \in DOMAIN applied
    /\ metadata(last.outcome.value, store) = EmptyMeta

\* what the observation a holds for a target, or nothing
AppliedIn(a, target, key) ==
    IF <<target, key>> \in DOMAIN a THEN a[<<target, key>>] ELSE <<>>

\* the view shows every list the observation a holds for class k
ShowsApplied(view, a, k) ==
    /\ MetaValue(view.class, "@before", "middleware", <<>>) = AppliedIn(a, k, Undefined)
    /\ \A m \in MetaMethods :
         MetaValue(Sub(view.method, m), "@before", "middleware", <<>>)
             = AppliedIn(a, Prototype(k), m)

\* C11: the metadata view of a record is computed from the store at each
\* read: it shows the lists applied to the class whether they were applied
\* before or after registerClass, and a record obtained by reflect before a
\* write shows that write when its metadata is read afterwards.
C11_ViewComputedOnRead ==
    [][/\ \A p \in DOMAIN knownClasses'.props :
            LET rec == reflect(knownClasses', p).value
            IN ShowsApplied(metadata(rec, store'), applied', rec.class)
       /\ (/\ last.op = "reflect"
           /\ last.outcome.kind = "return"
           /\ last'.op = "apply"
           /\ last'.outcome.kind = "return")
            => LET rec == last.outcome.value
               IN /\ ShowsApplied(metadata(rec, store'), applied', rec.class)
                  /\ (last'.target \in {rec.class, Prototype(rec.class)})
                       => metadata(rec, store') # EmptyMeta]_vars

C11_Witness ==
    /\ last.op = "apply"
    /\ last.target = "Foo"
    /\ last.key = Undefined
    /\ last.rest = AuthLog
    /\ "/foo.js" \in DOMAIN passed
    /\ passed["/foo.js"].class = "Foo"
    /\ ~passed["/foo.js"].again
    /\ MetaValue(metadata(reflect(knownClasses, "/foo.js").value, store).class,
                 "@before", "middleware", <<>>) = AuthLog

----------------------------------------------------------------------------
(* Properties of two instances in one process *)

\* C12: a registerClass call on one instance changes neither reflect(path),
\* for any path, nor knownClasses() of the other instance.
C12_RegistryIsolation ==
    [][/\ (last' # last /\ last'.op = "registerClass")
            => /\ \A p \in AppsPaths : reflect(otherApp', p) = reflect(otherApp, p)
               /\ knownClassesFunc(otherApp') = knownClassesFunc(otherApp)
       /\ (last' # last /\ last'.op = "other.registerClass")
            => /\ \A p \in AppsPaths :
                    reflect(knownClasses', p) = reflect(knownClasses, p)
               /\ knownClassesFunc(knownClasses') = knownClassesFunc(knownClasses)]_vars

C12_Witness ==
    /\ last.op = "other.registerClass"
    /\ last.path = "/foo.js"
    /\ reflect(otherApp, "/foo.js").kind = "return"
    /\ reflect(otherApp, "/foo.js").value.class = Undefined
    /\ reflect(knownClasses, "/foo.js").kind = "return"
    /\ reflect(knownClasses, "/foo.js").value.class = "Foo"
    /\ knownClassesFunc(knownClasses) = <<"/bar.js", "/foo.js">>
    /\ knownClassesFunc(otherApp) = <<"/foo.js">>

\* C13: when both instances have registered class Foo, a list applied to
\* Foo while the first instance loads its classes (every application of
\* this model) is not visible through the second instance's
\* reflect(path).metadata: the second instance sees its own, empty, store.
C13_StoreIsolation ==
    \A p \in DOMAIN otherApp.props :
        (/\ reflect(otherApp, p).value.class = "Foo"
         /\ \E q \in DOMAIN knownClasses.props :
                reflect(knownClasses, q).value.class = "Foo")
        => metadataGetter(reflect(otherApp, p).value, store) = Return(EmptyMeta)

----------------------------------------------------------------------------
(* Frame and order of the registry *)

\* C14: a registered path is never removed; the record of a path changes,
\* or comes into being, only by a registerClass of that same path; reflect,
\* knownClasses, before, applying a configurator and the passing of time
\* leave every record as it is.
C14_RegistryFrame ==
    [][/\ \A q \in DOMAIN knownClasses.props : q \in DOMAIN knownClasses'.props
       /\ \A q \in DOMAIN knownClasses'.props :
            (\/ q \notin DOMAIN knownClasses.props
             \/ knownClasses'.props[q] # knownClasses.props[q])
            => /\ last'.op = "registerClass"
               /\ last'.path = q
               /\ now' = now
       /\ (last' # last /\ last'.op \in {"reflect", "knownClasses", "before", "apply"})
            => knownClasses' = knownClasses
       /\ now' # now => knownClasses' = knownClasses]_vars

C14_Witness ==
    /\ last.op = "registerClass"
    /\ last.path = "/foo.js"
    /\ last.previous = 0
    /\ registeredAt(reflect(knownClasses, "/foo.js").value) = 1
    /\ "1" \in DOMAIN passed
    /\ registeredAt(reflect(knownClasses, "1").value) = 0
    /\ store # EmptyMap

----------------------------------------------------------------------------
(* Repeated writes *)

\* C15: after a configurator of before(L2) is applied to a target that
\* already holds L1 at the same granularity, exactly L2 is stored under
\* "@before"/"middleware"; applying a list that is already the stored one
\* leaves the store as it was.
C15_RepeatedWritesOverwrite ==
    [][(last' # last /\ last'.op = "apply" /\ last'.outcome.kind = "return")
         => /\ SlotValue(store', last'.target, last'.key) = last'.rest
            /\ (last'.previous = last'.rest) => store' = store]_vars

C15_Witness ==
    /\ last.op = "apply"
    /\ last.target = "Foo.prototype"
    /\ last.key = "get"
    /\ last.previous = AuthLog
    /\ last.rest = Cache
    /\ store["Foo.prototype"].method["get"]["@before"]["middleware"] = Cache

----------------------------------------------------------------------------
(* Reading the metadata of a registered path *)

\* no list was ever applied to class k or to one of its methods
NothingAppliedTo(k) ==
    /\ <<k, Undefined>> \notin DOMAIN applied
    /\ \A m \in Methods \cup MetaMethods \cup AppsMethods :
         <<Prototype(k), m>> \notin DOMAIN applied

\* reading .metadata of the record succeeds, with the empty structure when
\* nothing was applied to the record's class
ReadIsSafe(record, outcome) ==
    /\ outcome.kind = "return"
    /\ NothingAppliedTo(record.class) => outcome.value = EmptyMeta

\* C16 as stated: for every registered path, whatever was passed as the
\* class, reading reflect(path).metadata succeeds and gives the empty
\* structure when nothing was attached.
C16_Original ==
    /\ \A p \in DOMAIN knownClasses.props :
         LET rec == reflect(knownClasses, p).value
         IN ReadIsSafe(rec, metadataGetter(rec, store))
    /\ last.op = "metadata"
         => ReadIsSafe(reflect(knownClasses, last.path).value, last.outcome)

\* C16 amended: for every path registered with a class (a value that has a
\* prototype), reading reflect(path).metadata succeeds and gives the empty
\* structure when nothing was attached to the class.
C16_SafeReadForClasses ==
    /\ \A p \in DOMAIN knownClasses.props :
         LET rec == reflect(knownClasses, p).value
         IN rec.class \in Classes => ReadIsSafe(rec, metadataGetter(rec, store))
    /\ \A p \in DOMAIN otherApp.props :
         LET rec == reflect(otherApp, p).value
         IN rec.class \in Classes => ReadIsSafe(rec, metadataGetter(rec, store))
    /\ (last.op = "metadata"
        /\ reflect(knownClasses, last.path).value.class \in Classes)
         => ReadIsSafe(reflect(knownClasses, last.path).value, last.outcome)

C16_Witness ==
    /\ last.op = "metadata"
    /\ last.path = "/foo.js"
    /\ reflect(knownClasses, "/foo.js").value.class = "Foo"
    /\ last.outcome = Return(EmptyMeta)
    /\ "/bar.js" \in DOMAIN knownClasses.props
    /\ reflect(knownClasses, "/bar.js").value.class = Undefined

----------------------------------------------------------------------------
(* Order of knownClasses() *)

IsName(k) == ~IsArrayIndex(k)

Names(seq) == SelectSeq(seq, IsName)

Indices(seq) == SelectSeq(seq, IsArrayIndex)

Ascending(seq) ==
    \A i, j \in 1..Len(seq) : i < j => IndexValue(seq[i]) < IndexValue(seq[j])

\* C17 as stated: knownClasses() lists the paths in the order of their first
\* registration: a first registration appends its path to the sequence and
\* a repeated one leaves the sequence as it is, whatever the path strings.
C17_Original ==
    [][LET old == knownClassesFunc(knownClasses)
           new == knownClassesFunc(knownClasses')
       IN IF Range(new) = Range(old)
          THEN new = old
          ELSE \E p \in Range(new) : new = Append(old, p)]_vars

\* C17 amended: knownClasses() lists the paths that are array indices
\* (canonical numeric strings such as "9") first, in ascending numeric
\* order, and after them the other paths in the order of their first
\* registration; re-registering a path does not change the sequence.
C17_NamesInFirstRegistrationOrder ==
    [][LET old == knownClassesFunc(knownClasses)
           new == knownClassesFunc(knownClasses')
       IN /\ new = Indices(new) \o Names(new)
          /\ Ascending(Indices(new))
          /\ IF Range(Names(new)) = Range(Names(old))
             THEN Names(new) = Names(old)
             ELSE \E p \in Range(new) : Names(new) = Append(Names(old), p)
          /\ Range(new) = Range(old) => new = old
          /\ (last' # last /\ last'.op = "knownClasses")
               => last'.outcome.value = old]_vars

C17_Witness ==
    /\ last.op = "registerClass"
    /\ last.path = "/bar.js"
    /\ last.previous = 0
    /\ knownClassesFunc(knownClasses) = <<"9", "10", "/bar.js", "/foo.js">>

====
